---- MODULE Spec2Model ----
(***************************************************************************)
(* A model of the browser session manager of                               *)
(* src/tools/web_browser/lib/browser_manager.py (class BrowserManager):    *)
(* the lazily created page, the reentrant lock, cleanup, the crosshair     *)
(* screenshot protocol, the key translator and the console buffer.         *)
(* Command threads run the manager's methods step by step; the page        *)
(* surface (console events, the clock, failing page operations) is the     *)
(* environment.                                                            *)
(***************************************************************************)
EXTENDS Integers, Sequences, FiniteSets, TLC

(***************************************************************************)
(* Bounds of the model.                                                    *)
(***************************************************************************)
MaxShots == 2             \* successful captures explored
MaxEvents == 2            \* console events the page emits
MaxPages == 2             \* page objects the browser can hand out
MaxReconnectTimeout == 4  \* the larger configured reconnect timeout, in 0.1 s

\* how many leading letters of a key name vary in case
MaxCasePositions == 3

\* the largest window width and height explored
MaxWindow == 3

\* the command threads calling into one manager
Threads == {"t1", "t2"}

(***************************************************************************)
(* Program constants.  Durations are in tenths of a second.                *)
(***************************************************************************)
NoPage == 0               \* self.page is None
screenshot_delay == 2     \* ServerConfig.screenshot_delay = 0.2
MinRetrySleep == 3        \* the 0.3 of time.sleep(max(0.3, screenshot_delay))

ReconnectTimeouts == {0, MaxReconnectTimeout}

Max(a, b) == IF a >= b THEN a ELSE b
Min(a, b) == IF a <= b THEN a ELSE b

\* the character U+0060 (the key name of the backquote key): a TLA+ string
\* cannot hold it
GraveAccent == "grave accent"

(***************************************************************************)
(* Key Translator: KEY_MAP and get_key.  A key name is a sequence of       *)
(* one-character strings, so that str.lower() can be computed.             *)
(***************************************************************************)
UpperCase ==
    <<"A", "B", "C", "D", "E", "F", "G", "H", "I", "J", "K", "L", "M",
      "N", "O", "P", "Q", "R", "S", "T", "U", "V", "W", "X", "Y", "Z">>

LowerCase ==
    <<"a", "b", "c", "d", "e", "f", "g", "h", "i", "j", "k", "l", "m",
      "n", "o", "p", "q", "r", "s", "t", "u", "v", "w", "x", "y", "z">>

\* fault variant: get_key without key.lower()
LowerChar_AsIs(c) == c

\* str.lower() on one character
LowerChar(c) ==
    IF \E i \in 1..Len(UpperCase) : UpperCase[i] = c
    THEN LowerCase[CHOOSE i \in 1..Len(UpperCase) : UpperCase[i] = c]
    ELSE c

UpperChar(c) ==
    IF \E i \in 1..Len(LowerCase) : LowerCase[i] = c
    THEN UpperCase[CHOOSE i \in 1..Len(LowerCase) : LowerCase[i] = c]
    ELSE c

\* str.lower()
Lower(s) == [i \in 1..Len(s) |-> LowerChar(s[i])]

KEY_MAP ==
    (<<"f", "1">> :> "F1") @@ (<<"f", "2">> :> "F2") @@ (<<"f", "3">> :> "F3")
    @@ (<<"f", "4">> :> "F4") @@ (<<"f", "5">> :> "F5") @@ (<<"f", "6">> :> "F6")
    @@ (<<"f", "7">> :> "F7") @@ (<<"f", "8">> :> "F8") @@ (<<"f", "9">> :> "F9")
    @@ (<<"f", "1", "0">> :> "F10") @@ (<<"f", "1", "1">> :> "F11")
    @@ (<<"f", "1", "2">> :> "F12") @@ (<<"0">> :> "Digit0") @@ (<<"1">> :> "Digit1")
    @@ (<<"2">> :> "Digit2") @@ (<<"3">> :> "Digit3") @@ (<<"4">> :> "Digit4")
    @@ (<<"5">> :> "Digit5") @@ (<<"6">> :> "Digit6") @@ (<<"7">> :> "Digit7")
    @@ (<<"8">> :> "Digit8") @@ (<<"9">> :> "Digit9") @@ (<<"a">> :> "KeyA")
    @@ (<<"b">> :> "KeyB") @@ (<<"c">> :> "KeyC") @@ (<<"d">> :> "KeyD") @@ (<<"e">> :> "KeyE")
    @@ (<<"f">> :> "KeyF") @@ (<<"g">> :> "KeyG") @@ (<<"h">> :> "KeyH") @@ (<<"i">> :> "KeyI")
    @@ (<<"j">> :> "KeyJ") @@ (<<"k">> :> "KeyK") @@ (<<"l">> :> "KeyL") @@ (<<"m">> :> "KeyM")
    @@ (<<"n">> :> "KeyN") @@ (<<"o">> :> "KeyO") @@ (<<"p">> :> "KeyP") @@ (<<"q">> :> "KeyQ")
    @@ (<<"r">> :> "KeyR") @@ (<<"s">> :> "KeyS") @@ (<<"t">> :> "KeyT") @@ (<<"u">> :> "KeyU")
    @@ (<<"v">> :> "KeyV") @@ (<<"w">> :> "KeyW") @@ (<<"x">> :> "KeyX") @@ (<<"y">> :> "KeyY")
    @@ (<<"z">> :> "KeyZ") @@ (<<"u", "p">> :> "ArrowUp")
    @@ (<<"d", "o", "w", "n">> :> "ArrowDown") @@ (<<"l", "e", "f", "t">> :> "ArrowLeft")
    @@ (<<"r", "i", "g", "h", "t">> :> "ArrowRight")
    @@ (<<"a", "r", "r", "o", "w", "_", "u", "p">> :> "ArrowUp")
    @@ (<<"a", "r", "r", "o", "w", "_", "d", "o", "w", "n">> :> "ArrowDown")
    @@ (<<"a", "r", "r", "o", "w", "_", "l", "e", "f", "t">> :> "ArrowLeft")
    @@ (<<"a", "r", "r", "o", "w", "_", "r", "i", "g", "h", "t">> :> "ArrowRight")
    @@ (<<"h", "o", "m", "e">> :> "Home") @@ (<<"e", "n", "d">> :> "End")
    @@ (<<"p", "a", "g", "e", "_", "u", "p">> :> "PageUp")
    @@ (<<"p", "a", "g", "e", "_", "d", "o", "w", "n">> :> "PageDown")
    @@ (<<"p", "a", "g", "e", "u", "p">> :> "PageUp")
    @@ (<<"p", "a", "g", "e", "d", "o", "w", "n">> :> "PageDown")
    @@ (<<"b", "a", "c", "k", "s", "p", "a", "c", "e">> :> "Backspace")
    @@ (<<"d", "e", "l", "e", "t", "e">> :> "Delete")
    @@ (<<"i", "n", "s", "e", "r", "t">> :> "Insert")
    @@ (<<"e", "n", "t", "e", "r">> :> "Enter")
    @@ (<<"r", "e", "t", "u", "r", "n">> :> "Enter") @@ (<<"t", "a", "b">> :> "Tab")
    @@ (<<"e", "s", "c", "a", "p", "e">> :> "Escape") @@ (<<"e", "s", "c">> :> "Escape")
    @@ (<<"s", "h", "i", "f", "t">> :> "Shift") @@ (<<"c", "t", "r", "l">> :> "Control")
    @@ (<<"c", "o", "n", "t", "r", "o", "l">> :> "Control") @@ (<<"a", "l", "t">> :> "Alt")
    @@ (<<"m", "e", "t", "a">> :> "Meta")
    @@ (<<"s", "h", "i", "f", "t", "_", "l", "e", "f", "t">> :> "ShiftLeft")
    @@ (<<"c", "t", "r", "l", "_", "o", "r", "_", "m", "e", "t", "a">> :> "ControlOrMeta")
    @@ (<<"c", "o", "n", "t", "r", "o", "l", "_", "o", "r", "_", "m", "e", "t", "a">> :> "ControlOrMeta")
    @@ (<<"s", "p", "a", "c", "e">> :> " ")
    @@ (<<"s", "p", "a", "c", "e", "b", "a", "r">> :> " ")
    @@ (<<"b", "a", "c", "k", "q", "u", "o", "t", "e">> :> "Backquote")
    @@ (<<GraveAccent>> :> "Backquote") @@ (<<"b", "a", "c", "k", "t", "i", "c", "k">> :> "Backquote")
    @@ (<<"m", "i", "n", "u", "s">> :> "Minus") @@ (<<"-">> :> "Minus")
    @@ (<<"d", "a", "s", "h">> :> "Minus") @@ (<<"e", "q", "u", "a", "l">> :> "Equal")
    @@ (<<"=">> :> "Equal") @@ (<<"e", "q", "u", "a", "l", "s">> :> "Equal")
    @@ (<<"b", "a", "c", "k", "s", "l", "a", "s", "h">> :> "Backslash")
    @@ (<<"\\">> :> "Backslash")
    @@ (<<"b", "r", "a", "c", "k", "e", "t", "_", "l", "e", "f", "t">> :> "BracketLeft")
    @@ (<<"[">> :> "BracketLeft")
    @@ (<<"b", "r", "a", "c", "k", "e", "t", "_", "r", "i", "g", "h", "t">> :> "BracketRight")
    @@ (<<"]">> :> "BracketRight")
    @@ (<<"s", "e", "m", "i", "c", "o", "l", "o", "n">> :> "Semicolon")
    @@ (<<";">> :> "Semicolon") @@ (<<"q", "u", "o", "t", "e">> :> "Quote")
    @@ (<<"'">> :> "Quote")
    @@ (<<"a", "p", "o", "s", "t", "r", "o", "p", "h", "e">> :> "Quote")
    @@ (<<"c", "o", "m", "m", "a">> :> "Comma") @@ (<<",">> :> "Comma")
    @@ (<<"p", "e", "r", "i", "o", "d">> :> "Period") @@ (<<".">> :> "Period")
    @@ (<<"d", "o", "t">> :> "Period") @@ (<<"s", "l", "a", "s", "h">> :> "Slash")
    @@ (<<"/">> :> "Slash") @@ (<<"n", "u", "m", "p", "a", "d", "_", "0">> :> "Numpad0")
    @@ (<<"n", "u", "m", "p", "a", "d", "_", "1">> :> "Numpad1")
    @@ (<<"n", "u", "m", "p", "a", "d", "_", "2">> :> "Numpad2")
    @@ (<<"n", "u", "m", "p", "a", "d", "_", "3">> :> "Numpad3")
    @@ (<<"n", "u", "m", "p", "a", "d", "_", "4">> :> "Numpad4")
    @@ (<<"n", "u", "m", "p", "a", "d", "_", "5">> :> "Numpad5")
    @@ (<<"n", "u", "m", "p", "a", "d", "_", "6">> :> "Numpad6")
    @@ (<<"n", "u", "m", "p", "a", "d", "_", "7">> :> "Numpad7")
    @@ (<<"n", "u", "m", "p", "a", "d", "_", "8">> :> "Numpad8")
    @@ (<<"n", "u", "m", "p", "a", "d", "_", "9">> :> "Numpad9")
    @@ (<<"n", "u", "m", "p", "a", "d", "_", "a", "d", "d">> :> "NumpadAdd")
    @@ (<<"n", "u", "m", "p", "a", "d", "_", "s", "u", "b", "t", "r", "a", "c", "t">> :> "NumpadSubtract")
    @@ (<<"n", "u", "m", "p", "a", "d", "_", "m", "u", "l", "t", "i", "p", "l", "y">> :> "NumpadMultiply")
    @@ (<<"n", "u", "m", "p", "a", "d", "_", "d", "i", "v", "i", "d", "e">> :> "NumpadDivide")
    @@ (<<"n", "u", "m", "p", "a", "d", "_", "d", "e", "c", "i", "m", "a", "l">> :> "NumpadDecimal")
    @@ (<<"n", "u", "m", "p", "a", "d", "_", "e", "n", "t", "e", "r">> :> "NumpadEnter")
    @@ (<<"c", "a", "p", "s", "_", "l", "o", "c", "k">> :> "CapsLock")
    @@ (<<"c", "a", "p", "s", "l", "o", "c", "k">> :> "CapsLock")
    @@ (<<"n", "u", "m", "_", "l", "o", "c", "k">> :> "NumLock")
    @@ (<<"n", "u", "m", "l", "o", "c", "k">> :> "NumLock")
    @@ (<<"s", "c", "r", "o", "l", "l", "_", "l", "o", "c", "k">> :> "ScrollLock")
    @@ (<<"s", "c", "r", "o", "l", "l", "l", "o", "c", "k">> :> "ScrollLock")
    @@ (<<"E", "N", "T", "E", "R">> :> "Enter")
    @@ (<<"E", "S", "C", "A", "P", "E">> :> "Escape")
    @@ (<<"B", "A", "C", "K", "S", "P", "A", "C", "E">> :> "Backspace")
    @@ (<<"D", "E", "L", "E", "T", "E">> :> "Delete") @@ (<<"T", "A", "B">> :> "Tab")
    @@ (<<"S", "P", "A", "C", "E">> :> " ") @@ (<<"U", "P">> :> "ArrowUp")
    @@ (<<"D", "O", "W", "N">> :> "ArrowDown") @@ (<<"L", "E", "F", "T">> :> "ArrowLeft")
    @@ (<<"R", "I", "G", "H", "T">> :> "ArrowRight") @@ (<<"H", "O", "M", "E">> :> "Home")
    @@ (<<"E", "N", "D">> :> "End")

\* KEY_MAP.keys(): the names in the order of the dict literal
KEY_MAP_keys == <<
    <<"f", "1">>, <<"f", "2">>, <<"f", "3">>, <<"f", "4">>, <<"f", "5">>, <<"f", "6">>,
    <<"f", "7">>, <<"f", "8">>, <<"f", "9">>, <<"f", "1", "0">>, <<"f", "1", "1">>,
    <<"f", "1", "2">>, <<"0">>, <<"1">>, <<"2">>, <<"3">>, <<"4">>, <<"5">>, <<"6">>, <<"7">>,
    <<"8">>, <<"9">>, <<"a">>, <<"b">>, <<"c">>, <<"d">>, <<"e">>, <<"f">>, <<"g">>, <<"h">>,
    <<"i">>, <<"j">>, <<"k">>, <<"l">>, <<"m">>, <<"n">>, <<"o">>, <<"p">>, <<"q">>, <<"r">>,
    <<"s">>, <<"t">>, <<"u">>, <<"v">>, <<"w">>, <<"x">>, <<"y">>, <<"z">>, <<"u", "p">>,
    <<"d", "o", "w", "n">>, <<"l", "e", "f", "t">>, <<"r", "i", "g", "h", "t">>,
    <<"a", "r", "r", "o", "w", "_", "u", "p">>,
    <<"a", "r", "r", "o", "w", "_", "d", "o", "w", "n">>,
    <<"a", "r", "r", "o", "w", "_", "l", "e", "f", "t">>,
    <<"a", "r", "r", "o", "w", "_", "r", "i", "g", "h", "t">>, <<"h", "o", "m", "e">>,
    <<"e", "n", "d">>, <<"p", "a", "g", "e", "_", "u", "p">>,
    <<"p", "a", "g", "e", "_", "d", "o", "w", "n">>, <<"p", "a", "g", "e", "u", "p">>,
    <<"p", "a", "g", "e", "d", "o", "w", "n">>,
    <<"b", "a", "c", "k", "s", "p", "a", "c", "e">>, <<"d", "e", "l", "e", "t", "e">>,
    <<"i", "n", "s", "e", "r", "t">>, <<"e", "n", "t", "e", "r">>,
    <<"r", "e", "t", "u", "r", "n">>, <<"t", "a", "b">>, <<"e", "s", "c", "a", "p", "e">>,
    <<"e", "s", "c">>, <<"s", "h", "i", "f", "t">>, <<"c", "t", "r", "l">>,
    <<"c", "o", "n", "t", "r", "o", "l">>, <<"a", "l", "t">>, <<"m", "e", "t", "a">>,
    <<"s", "h", "i", "f", "t", "_", "l", "e", "f", "t">>,
    <<"c", "t", "r", "l", "_", "o", "r", "_", "m", "e", "t", "a">>,
    <<"c", "o", "n", "t", "r", "o", "l", "_", "o", "r", "_", "m", "e", "t", "a">>,
    <<"s", "p", "a", "c", "e">>, <<"s", "p", "a", "c", "e", "b", "a", "r">>,
    <<"b", "a", "c", "k", "q", "u", "o", "t", "e">>, <<GraveAccent>>,
    <<"b", "a", "c", "k", "t", "i", "c", "k">>, <<"m", "i", "n", "u", "s">>, <<"-">>,
    <<"d", "a", "s", "h">>, <<"e", "q", "u", "a", "l">>, <<"=">>,
    <<"e", "q", "u", "a", "l", "s">>, <<"b", "a", "c", "k", "s", "l", "a", "s", "h">>,
    <<"\\">>, <<"b", "r", "a", "c", "k", "e", "t", "_", "l", "e", "f", "t">>, <<"[">>,
    <<"b", "r", "a", "c", "k", "e", "t", "_", "r", "i", "g", "h", "t">>, <<"]">>,
    <<"s", "e", "m", "i", "c", "o", "l", "o", "n">>, <<";">>, <<"q", "u", "o", "t", "e">>,
    <<"'">>, <<"a", "p", "o", "s", "t", "r", "o", "p", "h", "e">>, <<"c", "o", "m", "m", "a">>,
    <<",">>, <<"p", "e", "r", "i", "o", "d">>, <<".">>, <<"d", "o", "t">>,
    <<"s", "l", "a", "s", "h">>, <<"/">>, <<"n", "u", "m", "p", "a", "d", "_", "0">>,
    <<"n", "u", "m", "p", "a", "d", "_", "1">>, <<"n", "u", "m", "p", "a", "d", "_", "2">>,
    <<"n", "u", "m", "p", "a", "d", "_", "3">>, <<"n", "u", "m", "p", "a", "d", "_", "4">>,
    <<"n", "u", "m", "p", "a", "d", "_", "5">>, <<"n", "u", "m", "p", "a", "d", "_", "6">>,
    <<"n", "u", "m", "p", "a", "d", "_", "7">>, <<"n", "u", "m", "p", "a", "d", "_", "8">>,
    <<"n", "u", "m", "p", "a", "d", "_", "9">>,
    <<"n", "u", "m", "p", "a", "d", "_", "a", "d", "d">>,
    <<"n", "u", "m", "p", "a", "d", "_", "s", "u", "b", "t", "r", "a", "c", "t">>,
    <<"n", "u", "m", "p", "a", "d", "_", "m", "u", "l", "t", "i", "p", "l", "y">>,
    <<"n", "u", "m", "p", "a", "d", "_", "d", "i", "v", "i", "d", "e">>,
    <<"n", "u", "m", "p", "a", "d", "_", "d", "e", "c", "i", "m", "a", "l">>,
    <<"n", "u", "m", "p", "a", "d", "_", "e", "n", "t", "e", "r">>,
    <<"c", "a", "p", "s", "_", "l", "o", "c", "k">>,
    <<"c", "a", "p", "s", "l", "o", "c", "k">>, <<"n", "u", "m", "_", "l", "o", "c", "k">>,
    <<"n", "u", "m", "l", "o", "c", "k">>,
    <<"s", "c", "r", "o", "l", "l", "_", "l", "o", "c", "k">>,
    <<"s", "c", "r", "o", "l", "l", "l", "o", "c", "k">>, <<"E", "N", "T", "E", "R">>,
    <<"E", "S", "C", "A", "P", "E">>, <<"B", "A", "C", "K", "S", "P", "A", "C", "E">>,
    <<"D", "E", "L", "E", "T", "E">>, <<"T", "A", "B">>, <<"S", "P", "A", "C", "E">>,
    <<"U", "P">>, <<"D", "O", "W", "N">>, <<"L", "E", "F", "T">>, <<"R", "I", "G", "H", "T">>,
    <<"H", "O", "M", "E">>, <<"E", "N", "D">> >>

\* key.lower() in KEY_MAP
KeyIsMapped(key) == Lower(key) \in DOMAIN KEY_MAP

\* the spelling of name with the letters at the positions in S in upper case
\* and the other letters in lower case
CaseVariant(name, S) ==
    [i \in 1..Len(name) |-> IF i \in S THEN UpperChar(name[i]) ELSE LowerChar(name[i])]

\* the spellings of name get_key is called with: any mix of cases in the
\* first MaxCasePositions letters, and the name all in upper case
CaseVariants(name) ==
    {CaseVariant(name, S) : S \in SUBSET (1..Len(name) \cap 1..MaxCasePositions)}
        \cup {CaseVariant(name, 1..Len(name))}

\* fault variant: get_key handing an unmapped name through to the page
get_key_PassThrough(key) == IF KeyIsMapped(key) THEN KEY_MAP[Lower(key)] ELSE "Unidentified"

\* get_key: the canonical identifier, or "ValueError" for an unmapped name
get_key(key) == IF KeyIsMapped(key) THEN KEY_MAP[Lower(key)] ELSE "ValueError"

\* msg = f"Key {key} not found. Supported keys: {', '.join(KEY_MAP.keys())}"
InvalidKeyMessage(key) == [key |-> key, supported |-> KEY_MAP_keys]

\* the key names the command threads pass in
KeyInputs == { <<"A">>, <<"b", "o", "g", "u", "s">> }

KeyCommands == {"key_down", "key_press", "key_up"}

\* the window of ServerConfig, in units of 256 pixels (1024 x 768)
WindowWidth == 4
WindowHeight == 3

\* the url of a page that has not navigated
BlankUrl == "about:blank"

\* no call is under study
NoProbe == [fn |-> "none"]

(***************************************************************************)
(* State.                                                                  *)
(***************************************************************************)
VARIABLES
    page,               \* self.page: NoPage or the id of the page object
    browser,            \* self.browser: "None" or "browser"
    playwright,         \* self.playwright: "None" or "playwright"
    screenshot_index,   \* self.screenshot_index
    mouse_x, mouse_y,   \* self.mouse_x, self.mouse_y
    reconnect_timeout,  \* self.reconnect_timeout, fixed at construction
    console_messages,   \* self.console_messages
    lock_owner,         \* the thread holding self._lock, or "None"
    lock_count,         \* how many times the owner holds the RLock
    th,                 \* per thread: the running method, its position, its locals
    open_pages,         \* page objects that are open in the browser
    listeners,          \* per page object, the console handlers registered on it
    pages_created,      \* page objects created so far (ctx.new_page() calls)
    mouse_moves,        \* page.mouse.move calls issued so far
    crosshair,          \* the crosshair elements are in the page's document
    emitted,            \* console events the page has emitted
    drained,            \* history: every list get_console_output returned, concatenated
    shots,              \* history: every screenshot_index take_screenshot returned, in order
    close_log,          \* history: the close()/stop() calls of cleanup, in order
    window_width,       \* self.window_width, fixed at construction
    window_height,      \* self.window_height, fixed at construction
    url,                \* the page.url of the latest page object
    last_move,          \* the target of the latest page.mouse.move call
    since_drain,        \* history: "event" when on_console ran since get_console_output
                        \* last returned (or since construction), else "quiet"
    probe               \* the arguments and the result of the call under study

manager_vars == <<page, browser, playwright, screenshot_index, mouse_x, mouse_y,
                  reconnect_timeout, console_messages>>
lock_vars == <<lock_owner, lock_count>>
surface_vars == <<open_pages, listeners, pages_created, mouse_moves, crosshair, emitted>>
history_vars == <<drained, shots, close_log>>
config_vars == <<window_width, window_height>>
env_vars == <<url, last_move>>
vars == <<manager_vars, lock_vars, th, surface_vars, history_vars,
          config_vars, env_vars, since_drain, probe>>

\* a thread that is not inside a method of the manager
IdleFrame ==
    [ pc |-> "idle", cmd |-> "none", err |-> "none",
      key |-> <<>>, playwright_key |-> "", result |-> "none",
      page |-> NoPage, time_left |-> 0, attempts |-> 0, inject_ok |-> FALSE,
      index_at_entry |-> 0,
      resources |-> <<>>, i |-> 0,
      messages |-> <<>> ]

\* a thread can call a method when it is not inside one; "returned" and "raised"
\* keep what the caller of the last take_screenshot / failed call saw
CanCall(t) == th[t].pc \in {"idle", "returned", "raised"}

\* __init__ and _init_browser: the playwright runtime and the browser are
\* started, no page exists yet
InitSession ==
    /\ page = NoPage
    /\ browser = "browser"
    /\ playwright = "playwright"
    /\ open_pages = {}
    /\ listeners = [p \in 1..MaxPages |-> 0]
    /\ pages_created = 0
    /\ mouse_moves = 0
    /\ url = "none"
    /\ last_move = <<>>

\* __init__: self.mouse_x = 0, self.mouse_y = 0
InitCursor ==
    /\ mouse_x = 0
    /\ mouse_y = 0

\* __init__: self.window_width, self.window_height from the configuration
InitWindow ==
    /\ window_width = WindowWidth
    /\ window_height = WindowHeight

\* __init__: the counter, the timeout, the buffer and the lock; no thread is
\* inside a method
InitRest ==
    /\ screenshot_index = 0
    /\ reconnect_timeout \in ReconnectTimeouts
    /\ console_messages = <<>>
    /\ lock_owner = "None"
    /\ lock_count = 0
    /\ th = [t \in Threads |-> IdleFrame]
    /\ crosshair = FALSE
    /\ emitted = 0
    /\ drained = <<>>
    /\ shots = <<>>
    /\ close_log = <<>>
    /\ since_drain = "quiet"

\* __init__
Init ==
    /\ InitSession
    /\ InitCursor
    /\ InitWindow
    /\ InitRest
    /\ probe = NoProbe

(***************************************************************************)
(* self._lock, a threading.RLock.                                          *)
(***************************************************************************)
\* fault variant: a lock that never makes a caller wait
CanAcquire_Always(t) == TRUE

\* RLock.acquire() returns at once for the owner and when the lock is free
CanAcquire(t) == lock_owner \in {"None", t}

Acquire(t) ==
    /\ CanAcquire(t)
    /\ lock_owner' = t
    /\ lock_count' = lock_count + 1

\* RLock.release(), as the with statement does on every exit
Release(t) ==
    /\ lock_count' = lock_count - 1
    /\ lock_owner' = IF lock_count = 1 THEN "None" ELSE lock_owner

\* the clock moves on by d: the deadline of every running retry loop
\* (th[t].time_left = timeout - time.time()) comes d closer
AdvanceClock(d) ==
    [t \in Threads |-> [th[t] EXCEPT !.time_left = Max(0, @ - d)]]

(***************************************************************************)
(* _browser_lock and _ensure_browser.                                      *)
(***************************************************************************)
\* fault variant: _ensure_browser without its "self.page is not None" test
PageIsMissing_NoTest(p) == TRUE

\* the test "self.page is not None" of _ensure_browser, negated
PageIsMissing(p) == p = NoPage

\* _ensure_browser fails: self.browser is None after cleanup, and
\* self.browser.new_context raises AttributeError
EnsureRaises == PageIsMissing(page) /\ browser = "None"

\* fault variant: _ensure_browser moving the mouse of a new page to where the
\* cursor was, without the reset
NewPageCursor_Kept == <<mouse_x, mouse_y>>

\* self.page.mouse.move(0, 0); self.mouse_x = self.mouse_y = 0
NewPageCursor == <<0, 0>>

\* _ensure_browser returns: the page it found, or a new page with the console
\* listener registered and the cursor moved to (0, 0)
EnsureBrowser ==
    IF PageIsMissing(page)
    THEN /\ pages_created < MaxPages
         /\ page' = pages_created + 1
         /\ pages_created' = pages_created + 1
         /\ open_pages' = open_pages \cup {pages_created + 1}
         /\ listeners' = [listeners EXCEPT ![pages_created + 1] = @ + 1]
         /\ mouse_moves' = mouse_moves + 1
         /\ url' = BlankUrl
         /\ last_move' = NewPageCursor
         /\ mouse_x' = NewPageCursor[1]
         /\ mouse_y' = NewPageCursor[2]
    ELSE UNCHANGED <<page, pages_created, open_pages, listeners, mouse_moves,
                     url, last_move, mouse_x, mouse_y>>

\* a method raises: its locals are gone, the caller sees the error
Raised(t, error) ==
    [th EXCEPT ![t] = [IdleFrame EXCEPT !.cmd = th[t].cmd, !.pc = "raised", !.err = error]]

\* a method returns: its locals are gone, the thread is free again
Returned(t) == [th EXCEPT ![t] = IdleFrame]

(***************************************************************************)
(* take_screenshot.                                                        *)
(***************************************************************************)
\* with self._browser_lock() as page: timeout = time.time() + reconnect_timeout
TakeScreenshotEnter(t) ==
    /\ CanCall(t)
    /\ screenshot_index < MaxShots
    /\ CanAcquire(t)
    /\ IF EnsureRaises
       THEN /\ th' = [th EXCEPT ![t] = [IdleFrame EXCEPT !.cmd = "take_screenshot",
                                            !.pc = "raised", !.err = "AttributeError"]]
            /\ UNCHANGED <<page, pages_created, open_pages, listeners, mouse_moves,
                           url, last_move, mouse_x, mouse_y, lock_vars>>
       ELSE /\ Acquire(t)
            /\ EnsureBrowser
            /\ th' = [th EXCEPT ![t] = [IdleFrame EXCEPT !.cmd = "take_screenshot",
                                            !.pc = "inject_loop", !.page = page',
                                            !.time_left = reconnect_timeout,
                                            !.index_at_entry = screenshot_index]]
    /\ UNCHANGED <<browser, playwright, screenshot_index, reconnect_timeout,
                   console_messages, crosshair, emitted, drained, shots, close_log>>
    /\ UNCHANGED <<config_vars, since_drain, probe>>

\* fault variant: _inject_crosshair without its try/except
InjectCrosshairResult_Raises(ok) == IF ok THEN "True" ELSE "raise"

\* _inject_crosshair: True when page.evaluate returned, False when it raised
\* (except Exception: return False)
InjectCrosshairResult(ok) == IF ok THEN "True" ELSE "False"

\* fault variant: the retry loop without its break
AfterAttempt_NoBreak(result) == "retry_sleep"

\* if self._inject_crosshair(...): break; otherwise the sleep of the loop body
AfterAttempt(result) == IF result = "True" THEN "settle" ELSE "retry_sleep"

\* while time.time() < timeout: if self._inject_crosshair(...): break
InjectAttempt(t) ==
    /\ th[t].pc = "inject_loop"
    /\ th[t].time_left > 0
    /\ \E ok \in BOOLEAN :
         /\ IF InjectCrosshairResult(ok) \in {"True", "False"}
            THEN /\ th' = [th EXCEPT
                             ![t].pc = AfterAttempt(InjectCrosshairResult(ok)),
                             ![t].attempts = @ + 1,
                             ![t].inject_ok = (InjectCrosshairResult(ok) = "True"),
                             ![t].time_left = IF InjectCrosshairResult(ok) = "True"
                                              THEN 0 ELSE @]
                 /\ UNCHANGED lock_vars
            ELSE /\ th' = Raised(t, "Error: page.evaluate")
                 /\ Release(t)
         /\ crosshair' = (crosshair \/ ok)
    /\ UNCHANGED <<manager_vars, open_pages, listeners, pages_created,
                   mouse_moves, emitted, history_vars>>
    /\ UNCHANGED <<config_vars, env_vars, since_drain, probe>>

\* while time.time() < timeout: the test fails, the loop ends
InjectDeadline(t) ==
    /\ th[t].pc = "inject_loop"
    /\ th[t].time_left = 0
    /\ th' = [th EXCEPT ![t].pc = "settle"]
    /\ UNCHANGED <<manager_vars, lock_vars, surface_vars, history_vars>>
    /\ UNCHANGED <<config_vars, env_vars, since_drain, probe>>

\* time.sleep(max(0.3, self.screenshot_delay)) after a failed attempt
RetrySleep(t) ==
    /\ th[t].pc = "retry_sleep"
    /\ th' = [AdvanceClock(Max(MinRetrySleep, screenshot_delay)) EXCEPT ![t].pc = "inject_loop"]
    /\ UNCHANGED <<manager_vars, lock_vars, surface_vars, history_vars>>
    /\ UNCHANGED <<config_vars, env_vars, since_drain, probe>>

\* time.sleep(self.screenshot_delay)
Settle(t) ==
    /\ th[t].pc = "settle"
    /\ th' = [AdvanceClock(screenshot_delay) EXCEPT ![t].pc = "capture"]
    /\ UNCHANGED <<manager_vars, lock_vars, surface_vars, history_vars>>
    /\ UNCHANGED <<config_vars, env_vars, since_drain, probe>>

\* fault variant: a lock taken with acquire() and no try/finally, still held
\* when the exception leaves the method
ReleaseOnRaise_Leak(t) == UNCHANGED lock_vars

\* an exception leaves "with self._lock: yield ..." of _browser_lock: the with
\* statement releases the lock
ReleaseOnRaise(t) == Release(t)

\* screenshot_data = page.screenshot(type="png"); an exception leaves the
\* with block, which releases the lock
Capture(t) ==
    /\ th[t].pc = "capture"
    /\ \E ok \in BOOLEAN :
         IF ok
         THEN /\ th' = [th EXCEPT ![t].pc = "remove_crosshair"]
              /\ UNCHANGED lock_vars
         ELSE /\ th' = Raised(t, "Error: page.screenshot")
              /\ ReleaseOnRaise(t)
    /\ UNCHANGED <<manager_vars, surface_vars, history_vars>>
    /\ UNCHANGED <<config_vars, env_vars, since_drain, probe>>

\* fault variant: _remove_crosshair without its try/except
AfterRemove_Propagates(ok) == IF ok THEN "increment" ELSE "raised"

\* what follows _remove_crosshair, whether page.evaluate returned or raised:
\* except Exception: pass
AfterRemove(ok) == "increment"

\* self._remove_crosshair(page): a failure is ignored
RemoveCrosshair(t) ==
    /\ th[t].pc = "remove_crosshair"
    /\ \E ok \in BOOLEAN :
         /\ crosshair' = (crosshair /\ ~ok)
         /\ IF AfterRemove(ok) = "increment"
            THEN /\ th' = [th EXCEPT ![t].pc = "increment"]
                 /\ UNCHANGED lock_vars
            ELSE /\ th' = Raised(t, "Error: page.evaluate")
                 /\ Release(t)
    /\ UNCHANGED <<manager_vars, open_pages, listeners, pages_created,
                   mouse_moves, emitted, history_vars>>
    /\ UNCHANGED <<config_vars, env_vars, since_drain, probe>>

\* fault variant: take_screenshot without the increment
NextIndex_NoIncrement(i) == i

\* self.screenshot_index += 1
NextIndex(i) == i + 1

\* self.screenshot_index += 1; return {..., "screenshot_index": self.screenshot_index}
TakeScreenshotReturn(t) ==
    /\ th[t].pc = "increment"
    /\ screenshot_index' = NextIndex(screenshot_index)
    /\ th' = [th EXCEPT ![t] = [IdleFrame EXCEPT !.cmd = "take_screenshot",
                                    !.pc = "returned",
                                    !.attempts = th[t].attempts,
                                    !.inject_ok = th[t].inject_ok]]
    /\ shots' = Append(shots, screenshot_index')
    /\ Release(t)
    /\ UNCHANGED <<page, browser, playwright, mouse_x, mouse_y, reconnect_timeout,
                   console_messages, surface_vars, drained, close_log>>
    /\ UNCHANGED <<config_vars, env_vars, since_drain, probe>>

\* time.time() moves on while a deadline is pending
Tick ==
    /\ \E t \in Threads : th[t].time_left > 0
    /\ th' = AdvanceClock(1)
    /\ UNCHANGED <<manager_vars, lock_vars, surface_vars, history_vars>>
    /\ UNCHANGED <<config_vars, env_vars, since_drain, probe>>

(***************************************************************************)
(* key_down, key_press, key_up.                                            *)
(***************************************************************************)
\* playwright_key = self.get_key(key)
KeyTranslate(t, c, k) ==
    /\ CanCall(t)
    /\ th' = [th EXCEPT ![t] =
                IF get_key(k) # "ValueError"
                THEN [IdleFrame EXCEPT !.cmd = c, !.pc = "key_send", !.key = k,
                                       !.playwright_key = get_key(k)]
                ELSE [IdleFrame EXCEPT !.cmd = c, !.pc = "raised", !.key = k,
                                       !.err = "ValueError"]]
    /\ UNCHANGED <<manager_vars, lock_vars, surface_vars, history_vars>>
    /\ UNCHANGED <<config_vars, env_vars, since_drain, probe>>

\* the outcome of self.page.keyboard.<event>(playwright_key) on self.page = p
KeySendOutcome(p) ==
    IF p = NoPage THEN "AttributeError"
    ELSE IF p \notin open_pages THEN "Error: page closed"
    ELSE "none"

\* self.page.keyboard.down / press / up (playwright_key)
KeySend(t) ==
    /\ th[t].pc = "key_send"
    /\ th' = IF KeySendOutcome(page) = "none"
             THEN Returned(t)
             ELSE Raised(t, KeySendOutcome(page))
    /\ UNCHANGED <<manager_vars, lock_vars, surface_vars, history_vars>>
    /\ UNCHANGED <<config_vars, env_vars, since_drain, probe>>

(***************************************************************************)
(* cleanup.                                                                *)
(***************************************************************************)
\* fault variant: cleanup closing the browser before the page
CleanupOrder_BrowserFirst == <<"browser", "page", "playwright">>

\* the order of the list cleanup iterates over
CleanupOrder == <<"page", "browser", "playwright">>

\* what each resource was obtained from: the page from a context of the browser
\* (_ensure_browser), the browser from the playwright runtime (_init_browser)
Dependencies ==
    [n \in {"page", "browser", "playwright"} |->
        IF n = "page" THEN {"browser", "playwright"}
        ELSE IF n = "browser" THEN {"playwright"}
        ELSE {}]

\* the list [(self.page, "page"), (self.browser, "browser"), (self.playwright, "playwright")]
Resources == [n \in {"page", "browser", "playwright"} |->
                IF n = "page" THEN page # NoPage
                ELSE IF n = "browser" THEN browser # "None"
                ELSE playwright # "None"]

\* with self._lock: for resource, name in [...]
CleanupEnter(t) ==
    /\ CanCall(t)
    /\ Acquire(t)
    /\ th' = [th EXCEPT ![t] = [IdleFrame EXCEPT !.cmd = "cleanup", !.pc = "release_loop",
                                    !.page = page, !.resources = Resources, !.i = 1]]
    /\ UNCHANGED <<manager_vars, surface_vars, history_vars>>
    /\ UNCHANGED <<config_vars, env_vars, since_drain, probe>>

\* fault variant: cleanup without its try/except, a failing close propagates
AfterClose_Propagates(ok) == IF ok THEN "release_loop" ELSE "raised"

\* what follows one close()/stop() call, whether it returned or raised:
\* except Exception: pass
AfterClose(ok) == "release_loop"

\* the pages still open once the resource named n was closed
OpenAfterClose(n, p) == IF n = "page" THEN open_pages \ {p} ELSE {}

\* if resource is not None: try: resource.close() / resource.stop()
CleanupClose(t) ==
    /\ th[t].pc = "release_loop"
    /\ th[t].i <= Len(CleanupOrder)
    /\ th[t].resources[CleanupOrder[th[t].i]]
    /\ \E ok \in BOOLEAN :
         /\ th' = IF AfterClose(ok) = "release_loop"
                  THEN [th EXCEPT ![t].i = @ + 1]
                  ELSE Raised(t, "Error: close")
         /\ open_pages' = IF ok THEN OpenAfterClose(CleanupOrder[th[t].i], th[t].page)
                          ELSE open_pages
         /\ IF AfterClose(ok) = "release_loop" THEN UNCHANGED lock_vars ELSE Release(t)
    /\ close_log' = Append(close_log, CleanupOrder[th[t].i])
    /\ UNCHANGED <<manager_vars, listeners, pages_created, mouse_moves, crosshair,
                   emitted, drained, shots>>
    /\ UNCHANGED <<config_vars, env_vars, since_drain, probe>>

\* if resource is not None: the test fails, the resource is skipped
CleanupSkip(t) ==
    /\ th[t].pc = "release_loop"
    /\ th[t].i <= Len(CleanupOrder)
    /\ ~th[t].resources[CleanupOrder[th[t].i]]
    /\ th' = [th EXCEPT ![t].i = @ + 1]
    /\ UNCHANGED <<manager_vars, lock_vars, surface_vars, history_vars>>
    /\ UNCHANGED <<config_vars, env_vars, since_drain, probe>>

\* self.browser = self.page = self.playwright = None
CleanupClear(t) ==
    /\ th[t].pc = "release_loop"
    /\ th[t].i > Len(CleanupOrder)
    /\ page' = NoPage
    /\ browser' = "None"
    /\ playwright' = "None"
    /\ th' = Returned(t)
    /\ Release(t)
    /\ UNCHANGED <<screenshot_index, mouse_x, mouse_y, reconnect_timeout,
                   console_messages, surface_vars, history_vars>>
    /\ UNCHANGED <<config_vars, env_vars, since_drain, probe>>

(***************************************************************************)
(* The console buffer: on_console and get_console_output.                  *)
(***************************************************************************)
\* what the handlers registered on page p by page.on("console", on_console)
\* append for the event numbered e: self.console_messages.append({...})
OnConsoleAppends(p, e) == [i \in 1..listeners[p] |-> e]

\* the page emits a console event; on_console runs, taking no lock
OnConsole(p) ==
    /\ p \in open_pages
    /\ listeners[p] > 0
    /\ emitted < MaxEvents
    /\ emitted' = emitted + 1
    /\ console_messages' = console_messages \o OnConsoleAppends(p, emitted + 1)
    /\ UNCHANGED <<page, browser, playwright, screenshot_index, mouse_x, mouse_y,
                   reconnect_timeout, lock_vars, th, open_pages, listeners,
                   pages_created, mouse_moves, crosshair, history_vars>>
    /\ since_drain' = "event"
    /\ UNCHANGED <<config_vars, env_vars, probe>>

\* with self._lock: messages = self.console_messages.copy()
GetConsoleOutputCopy(t) ==
    /\ CanCall(t)
    /\ Acquire(t)
    /\ th' = [th EXCEPT ![t] = [IdleFrame EXCEPT !.cmd = "get_console_output",
                                    !.pc = "clear", !.messages = console_messages]]
    /\ UNCHANGED <<manager_vars, surface_vars, history_vars>>
    /\ UNCHANGED <<config_vars, env_vars, since_drain, probe>>

\* fault variant: messages = self.console_messages, the buffer itself
ReturnedMessages_Alias(copy, buffer) == buffer

\* return messages: the list made by copy() before the buffer was cleared
ReturnedMessages(copy, buffer) == copy

\* self.console_messages.clear(); return messages
GetConsoleOutputClear(t) ==
    /\ th[t].pc = "clear"
    /\ console_messages' = <<>>
    /\ th' = Returned(t)
    /\ drained' = drained \o ReturnedMessages(th[t].messages, console_messages')
    /\ Release(t)
    /\ UNCHANGED <<page, browser, playwright, screenshot_index, mouse_x, mouse_y,
                   reconnect_timeout, surface_vars, shots, close_log>>
    /\ since_drain' = "quiet"
    /\ UNCHANGED <<config_vars, env_vars, probe>>

(***************************************************************************)
(* The specification.                                                      *)
(***************************************************************************)
Next ==
    \/ \E t \in Threads :
        \/ TakeScreenshotEnter(t)
        \/ InjectAttempt(t)
        \/ InjectDeadline(t)
        \/ RetrySleep(t)
        \/ Settle(t)
        \/ Capture(t)
        \/ RemoveCrosshair(t)
        \/ TakeScreenshotReturn(t)
        \/ \E c \in KeyCommands, k \in KeyInputs : KeyTranslate(t, c, k)
        \/ KeySend(t)
        \/ CleanupEnter(t)
        \/ CleanupClose(t)
        \/ CleanupSkip(t)
        \/ CleanupClear(t)
        \/ GetConsoleOutputCopy(t)
        \/ GetConsoleOutputClear(t)
    \/ \E p \in 1..MaxPages : OnConsole(p)
    \/ Tick

Spec == Init /\ [][Next]_vars

\* the steps of take_screenshot between taking the lock and the capture; each
\* is a sleep or a page operation that returns, so a thread that is at one of
\* them goes on
CaptureApproach(t) ==
    \/ InjectAttempt(t)
    \/ InjectDeadline(t)
    \/ RetrySleep(t)
    \/ Settle(t)

\* the same behaviours, with every thread inside take_screenshot running on
LiveSpec == Spec /\ \A t \in Threads : WF_vars(CaptureApproach(t))

(***************************************************************************)
(* get_key on its own: every name of KEY_MAP in its case variants.         *)
(***************************************************************************)
KeyProbes ==
    UNION {{[fn |-> "get_key", name |-> KEY_MAP_keys[n], key |-> k, result |-> "pending"] :
                k \in CaseVariants(KEY_MAP_keys[n])} : n \in 1..Len(KEY_MAP_keys)}

KeyInit ==
    /\ InitSession
    /\ InitCursor
    /\ InitWindow
    /\ InitRest
    /\ probe \in KeyProbes

\* get_key(key) is called and returns or raises
GetKeyCall ==
    /\ probe.fn = "get_key"
    /\ probe.result = "pending"
    /\ probe' = [probe EXCEPT !.result = get_key(probe.key)]
    /\ UNCHANGED <<manager_vars, lock_vars, th, surface_vars, history_vars,
                   config_vars, env_vars, since_drain>>

KeyNext == GetKeyCall

KeySpec == KeyInit /\ [][KeyNext]_vars

(***************************************************************************)
(* The viewport guard: validate_coordinates and constrain_mouse_position,  *)
(* called on a manager whose page exists, for every window and cursor.     *)
(***************************************************************************)
\* the configured window sizes and the cursor coordinates callers leave behind
WindowSizes == -1..MaxWindow
Coordinates == -2..(MaxWindow + 2)

\* the session after the first _ensure_browser
SessionOpen ==
    /\ page = 1
    /\ browser = "browser"
    /\ playwright = "playwright"
    /\ open_pages = {1}
    /\ listeners = [p \in 1..MaxPages |-> IF p = 1 THEN 1 ELSE 0]
    /\ pages_created = 1
    /\ mouse_moves = 1
    /\ url = BlankUrl
    /\ last_move = <<0, 0>>

GuardInit ==
    /\ SessionOpen
    /\ InitRest
    /\ window_width \in WindowSizes
    /\ window_height \in WindowSizes
    /\ mouse_x \in Coordinates
    /\ mouse_y \in Coordinates
    /\ probe = [fn |-> "guard", x |-> mouse_x, y |-> mouse_y, moves |-> mouse_moves,
                valid |-> <<>>, adjusted |-> "pending"]

\* fault variant: validate_coordinates with exclusive upper bounds
validate_coordinates_Exclusive(x, y) ==
    << 0 <= x /\ x < window_width, 0 <= y /\ y < window_height >>

\* validate_coordinates(x, y): (x_is_valid, y_is_valid)
validate_coordinates(x, y) ==
    << 0 <= x /\ x <= window_width, 0 <= y /\ y <= window_height >>

\* validate_coordinates is called with the cursor position
ValidateCoordinatesCall ==
    /\ probe.fn = "guard"
    /\ probe.valid = <<>>
    /\ probe' = [probe EXCEPT !.valid = validate_coordinates(probe.x, probe.y)]
    /\ UNCHANGED <<manager_vars, lock_vars, th, surface_vars, history_vars,
                   config_vars, env_vars, since_drain>>

\* fault variant: constrain_mouse_position without the test of the window
ConstrainRefuses_Never == FALSE

\* if self.window_width <= 0 or self.window_height <= 0: return False
ConstrainRefuses == window_width <= 0 \/ window_height <= 0

\* if self.mouse_x >= self.window_width or self.mouse_y >= self.window_height
CursorBeyondWindow == mouse_x >= window_width \/ mouse_y >= window_height

\* fault variant: the clamp with the dimension itself as the upper end
ClampToWindow_OffByOne(v, d) == Max(0, Min(v, d))

\* v = min(v, d - 1); v = max(0, v)
ClampToWindow(v, d) == Max(0, Min(v, d - 1))

\* constrain_mouse_position(page): "True" and "False" are its return values
ConstrainMousePosition ==
    /\ probe.fn = "guard"
    /\ probe.adjusted = "pending"
    /\ IF ~ConstrainRefuses /\ CursorBeyondWindow
       THEN /\ mouse_x' = ClampToWindow(mouse_x, window_width)
            /\ mouse_y' = ClampToWindow(mouse_y, window_height)
            /\ mouse_moves' = mouse_moves + 1
            /\ last_move' = <<mouse_x', mouse_y'>>
            /\ probe' = [probe EXCEPT !.adjusted = "True"]
       ELSE /\ UNCHANGED <<mouse_x, mouse_y, mouse_moves, last_move>>
            /\ probe' = [probe EXCEPT !.adjusted = "False"]
    /\ UNCHANGED <<page, browser, playwright, screenshot_index, reconnect_timeout,
                   console_messages, lock_vars, th, open_pages, listeners,
                   pages_created, crosshair, emitted, history_vars, config_vars,
                   url, since_drain>>

GuardNext ==
    \/ ValidateCoordinatesCall
    \/ ConstrainMousePosition

GuardSpec == GuardInit /\ [][GuardNext]_vars

(***************************************************************************)
(* The session seen from outside: is_website_open, with the callers that   *)
(* navigate the page and leave the cursor somewhere, next to the commands  *)
(* that create and release the session.                                    *)
(***************************************************************************)
\* the urls a page can show
Urls == {"", BlankUrl, "https://example.org"}

\* the cursor positions callers record in mouse_x, mouse_y
CursorTargets == {<<1, 2>>}

\* fault variant: is_website_open taking any page for an open website
UrlIsBlank_Never(u) == FALSE

\* self.page.url in (None, "about:blank", "")
UrlIsBlank(u) == u \in {"None", BlankUrl, ""}

\* is_website_open: the test "self.page is not None"
IsWebsiteOpenTestPage(t) ==
    /\ CanCall(t)
    /\ th' = [th EXCEPT ![t] =
                IF page = NoPage
                THEN [IdleFrame EXCEPT !.cmd = "is_website_open", !.pc = "returned",
                                       !.result = "False"]
                ELSE [IdleFrame EXCEPT !.cmd = "is_website_open", !.pc = "url_read"]]
    /\ UNCHANGED <<manager_vars, lock_vars, surface_vars, history_vars,
                   config_vars, env_vars, since_drain, probe>>

\* is_website_open: self.page.url not in (None, "about:blank", ""), on what
\* self.page is by now
IsWebsiteOpenReadUrl(t) ==
    /\ th[t].pc = "url_read"
    /\ th' = [th EXCEPT ![t] =
                IF page = NoPage
                THEN [IdleFrame EXCEPT !.cmd = "is_website_open", !.pc = "raised",
                                       !.err = "AttributeError"]
                ELSE [IdleFrame EXCEPT !.cmd = "is_website_open", !.pc = "returned",
                                       !.result = IF UrlIsBlank(url) THEN "False"
                                                  ELSE "True"]]
    /\ UNCHANGED <<manager_vars, lock_vars, surface_vars, history_vars,
                   config_vars, env_vars, since_drain, probe>>

\* the open page navigates to u
Navigate(u) ==
    /\ page \in open_pages
    /\ url # u
    /\ url' = u
    /\ UNCHANGED <<manager_vars, lock_vars, th, surface_vars, history_vars,
                   config_vars, last_move, since_drain, probe>>

\* a caller records the cursor position c in self.mouse_x, self.mouse_y
SetCursor(c) ==
    /\ <<mouse_x, mouse_y>> # c
    /\ mouse_x' = c[1]
    /\ mouse_y' = c[2]
    /\ UNCHANGED <<page, browser, playwright, screenshot_index, reconnect_timeout,
                   console_messages, lock_vars, th, surface_vars, history_vars,
                   config_vars, env_vars, since_drain, probe>>

SessionNext ==
    \/ \E t \in Threads :
        \/ TakeScreenshotEnter(t)
        \/ InjectAttempt(t)
        \/ InjectDeadline(t)
        \/ RetrySleep(t)
        \/ Settle(t)
        \/ Capture(t)
        \/ RemoveCrosshair(t)
        \/ TakeScreenshotReturn(t)
        \/ CleanupEnter(t)
        \/ CleanupClose(t)
        \/ CleanupSkip(t)
        \/ CleanupClear(t)
        \/ IsWebsiteOpenTestPage(t)
        \/ IsWebsiteOpenReadUrl(t)
    \/ \E u \in Urls : Navigate(u)
    \/ \E c \in CursorTargets : SetCursor(c)

SessionSpec == Init /\ [][SessionNext]_vars

(***************************************************************************)
(* Construction: __init__ validates the configured browser type before     *)
(* _init_browser starts the playwright runtime and launches the browser.   *)
(***************************************************************************)
SUPPORTED_BROWSERS == {<<"c", "h", "r", "o", "m", "i", "u", "m">>, <<"f", "i", "r", "e", "f", "o", "x">>}

\* the values of config.browser_type explored: two supported engines, two
\* other names and the empty string, in their case variants
BrowserTypeNames == {<<"c", "h", "r", "o", "m", "i", "u", "m">>, <<"f", "i", "r", "e", "f", "o", "x">>, <<"w", "e", "b", "k", "i", "t">>, <<"c", "h", "r", "o", "m", "e">>, <<>>}
BrowserTypeInputs == UNION {CaseVariants(n) : n \in BrowserTypeNames}

\* fault variant: an unsupported name falls back to the default engine
validate_browser_type_Default(browser_type) ==
    IF Lower(browser_type) \in SUPPORTED_BROWSERS
    THEN Lower(browser_type)
    ELSE <<"c", "h", "r", "o", "m", "i", "u", "m">>

\* _validate_browser_type: the lower-cased name, or <<"ValueError">> for
\* raise ValueError(...)
validate_browser_type(browser_type) ==
    IF Lower(browser_type) \in SUPPORTED_BROWSERS
    THEN Lower(browser_type)
    ELSE <<"ValueError">>

\* the manager before __init__ has run: no runtime, no browser, no page
NothingStarted ==
    /\ page = NoPage
    /\ browser = "None"
    /\ playwright = "None"
    /\ open_pages = {}
    /\ listeners = [p \in 1..MaxPages |-> 0]
    /\ pages_created = 0
    /\ mouse_moves = 0
    /\ url = "none"
    /\ last_move = <<>>

ConstructInit ==
    /\ NothingStarted
    /\ InitCursor
    /\ InitWindow
    /\ InitRest
    /\ \E b \in BrowserTypeInputs :
          probe = [fn |-> "construct", pc |-> "validate", config_browser_type |-> b,
                   browser_type |-> <<>>, launched |-> <<>>]

\* self.browser_type = self._validate_browser_type(config.browser_type)
ValidateBrowserType ==
    /\ probe.fn = "construct"
    /\ probe.pc = "validate"
    /\ probe' = IF validate_browser_type(probe.config_browser_type) = <<"ValueError">>
                THEN [probe EXCEPT !.pc = "raised"]
                ELSE [probe EXCEPT !.pc = "init_browser",
                         !.browser_type = validate_browser_type(probe.config_browser_type)]
    /\ UNCHANGED <<manager_vars, lock_vars, th, surface_vars, history_vars,
                   config_vars, env_vars, since_drain>>

\* self._init_browser(): sync_playwright().start(), then the launch method
\* named by self.browser_type
InitBrowser ==
    /\ probe.fn = "construct"
    /\ probe.pc = "init_browser"
    /\ playwright' = "playwright"
    /\ browser' = "browser"
    /\ probe' = [probe EXCEPT !.pc = "constructed", !.launched = probe.browser_type]
    /\ UNCHANGED <<page, screenshot_index, mouse_x, mouse_y, reconnect_timeout,
                   console_messages, lock_vars, th, surface_vars, history_vars,
                   config_vars, env_vars, since_drain>>

ConstructNext ==
    \/ ValidateBrowserType
    \/ InitBrowser

ConstructSpec == ConstructInit /\ [][ConstructNext]_vars

(***************************************************************************)
(* Properties.                                                             *)
(***************************************************************************)
\* the positions of take_screenshot between its lock acquisition and its return
CapturePcs == {"inject_loop", "retry_sleep", "settle", "capture", "remove_crosshair",
               "increment"}

\* thread t is inside a method at a position where it reads or writes the session
\* (the page, the cursor, the screenshot counter, the resources being released)
TouchesSession(t) == th[t].pc \in CapturePcs \cup {"key_send", "release_loop"}

\* C1: every command takes the manager's lock before it touches the session, so
\* at most one in-flight command reads or mutates session state at a time.
C1_SessionOnlyUnderLock ==
    \A t, u \in Threads : (TouchesSession(t) /\ TouchesSession(u)) => t = u

\* thread t delivers the key_down event to the page in this step
KeyDownDelivered(t) ==
    /\ th[t].pc = "key_send"
    /\ th[t].cmd = "key_down"
    /\ th'[t].pc = "idle"

\* thread u is inside a take_screenshot that has made its first injection attempt
\* and has not yet removed the crosshair
InCrosshairWindow(u) ==
    /\ th[u].attempts >= 1
    /\ th[u].pc \in {"inject_loop", "retry_sleep", "settle", "capture", "remove_crosshair"}

\* C2: with key_down and take_screenshot running concurrently, the key event is
\* never delivered between the screenshot's first crosshair injection attempt and
\* its crosshair removal.
C2_NoKeyEventInsideCapture ==
    [][\A t, u \in Threads : KeyDownDelivered(t) => ~InCrosshairWindow(u)]_vars

\* C3: after cleanup() has completed the session reference is cleared and the next
\* take_screenshot re-creates a fresh session instead of failing.
C3_FreshSessionAfterCleanup ==
    /\ browser = "None" => page = NoPage
    /\ \A t \in Threads :
         ~(th[t].cmd = "take_screenshot" /\ th[t].pc = "raised"
           /\ th[t].err = "AttributeError")

\* C4: a key-event command with a valid key name creates the session when the
\* page does not exist and delivers the key event; it fails only for an unmapped
\* key name.
C4_KeyCommandEnsuresPage ==
    \A t \in Threads :
        (th[t].cmd \in KeyCommands /\ th[t].pc = "raised") => th[t].err = "ValueError"

\* C5: _ensure_browser is idempotent: while no cleanup() has run, at most one
\* page is ever created, every take_screenshot in progress works on that page,
\* and the console listener is registered on it exactly once.
C5_EnsureBrowserIdempotent ==
    /\ browser # "None" => pages_created <= 1
    /\ \A t \in Threads :
         th[t].pc \in CapturePcs => (th[t].page = page /\ page # NoPage)
    /\ page # NoPage => listeners[page] = 1

\* C5 witness: two captures have completed with no cleanup, on one page
C5_Witness_TwoCallsOnePage ==
    /\ screenshot_index = 2
    /\ pages_created = 1
    /\ browser # "None"
    /\ close_log = <<>>

\* the resources cleanup has tried to close so far
Closed == {close_log[k] : k \in 1..Len(close_log)}

\* C6: cleanup() never raises: whichever close calls fail, every resource that
\* was not None is still closed in turn, and once cleanup has ended the
\* references to all three resources are cleared.
C6_CleanupNeverRaises ==
    /\ \A t \in Threads : th[t].cmd = "cleanup" => th[t].pc # "raised"
    /\ \A t \in Threads :
         th[t].pc = "release_loop" =>
            \A k \in 1..(th[t].i - 1) :
                th[t].resources[CleanupOrder[k]] => CleanupOrder[k] \in Closed
    /\ (close_log # <<>> /\ \A t \in Threads : th[t].cmd # "cleanup") =>
            /\ page = NoPage
            /\ browser = "None"
            /\ playwright = "None"
            /\ {"browser", "playwright"} \subseteq Closed

\* C6 witness: a cleanup has ended, all three close calls were made, the page's
\* and the browser's and the runtime's close failed (the page is still open),
\* and the references are cleared
C6_Witness_AllClosesFailed ==
    /\ \A t \in Threads : th[t].cmd # "cleanup"
    /\ Len(close_log) = 3
    /\ open_pages # {}
    /\ page = NoPage
    /\ browser = "None"
    /\ playwright = "None"

\* C7: cleanup() releases in dependency order, the page, then the browser that
\* owns it, then the runtime: nothing is closed before a resource that depends
\* on it.
C7_ReleaseInDependencyOrder ==
    \A i, j \in 1..Len(close_log) :
        i < j => close_log[i] \notin Dependencies[close_log[j]]

\* C7 witness: a cleanup closed the page, the browser and the runtime
C7_Witness_AllThreeClosed == close_log = <<"page", "browser", "playwright">>

\* C8: take_screenshot soft-fails on marker injection: a failed injection attempt
\* never raises, when the deadline passes without a successful injection the call
\* goes on to the settle delay and the capture, and the call that captured
\* without a marker returns with the counter incremented by one and no error.
C8_SoftFailOnInjection ==
    [][\A t \in Threads :
        /\ (th[t].pc = "inject_loop" /\ th'[t].pc # "inject_loop") =>
              /\ th'[t].pc \in {"settle", "retry_sleep"}
              /\ (th[t].time_left = 0 => th'[t].pc = "settle")
        /\ (th[t].pc = "increment" /\ ~th[t].inject_ok /\ th'[t].pc # "increment") =>
              /\ th'[t].pc = "returned"
              /\ th'[t].err = "none"
              /\ screenshot_index' = screenshot_index + 1
              /\ shots' = Append(shots, screenshot_index + 1)
      ]_vars

\* C8 witness: a take_screenshot returned after two injection attempts that both
\* failed
C8_Witness_ReturnedWithoutMarker ==
    \E t \in Threads :
        /\ th[t].pc = "returned"
        /\ th[t].cmd = "take_screenshot"
        /\ th[t].attempts >= 2
        /\ ~th[t].inject_ok
        /\ screenshot_index >= 1

\* C9: the screenshot counter gives a total order over captures: every
\* successful take_screenshot increments it by exactly one and returns the new
\* value, no two captures return the same index, and no other capture returns
\* between a capture's lock acquisition and its own return.
C9_CounterTotalOrder ==
    /\ shots = [k \in 1..Len(shots) |-> k]
    /\ Len(shots) = screenshot_index
    /\ \A t \in Threads :
         th[t].pc \in CapturePcs => th[t].index_at_entry = screenshot_index

\* C9 witness: two captures have returned, with indices 1 and 2
C9_Witness_TwoCaptures == shots = <<1, 2>>

\* C10: console draining is exactly-once and FIFO under asynchronous console
\* events: whenever no drain is in progress, the lists returned so far followed
\* by the buffer are exactly the events emitted, each once, in order.
C10_DrainExactlyOnceFifo ==
    (\A t \in Threads : th[t].cmd # "get_console_output") =>
        drained \o console_messages = [k \in 1..emitted |-> k]

\* thread t returns from get_console_output in this step
DrainReturns(t) == th[t].pc = "clear" /\ th'[t].pc # "clear"

\* C11: a drain that returns with no console event since the previous drain
\* returned hands out the empty list, and the list a drain hands out is the
\* snapshot it copied: appends after the copy, the clear and later drains
\* change neither it nor the lists handed out before.
C11_DrainSnapshot ==
    [][ /\ \A t \in Threads :
             /\ DrainReturns(t) =>
                   /\ drained' = drained \o th[t].messages
                   /\ since_drain = "quiet" => drained' = drained
             /\ (th[t].pc = "clear" /\ ~DrainReturns(t)) =>
                   th'[t].messages = th[t].messages
        /\ Len(drained') >= Len(drained)
        /\ SubSeq(drained', 1, Len(drained)) = drained ]_vars

\* a second drain is about to hand out the empty list: the drain before it
\* handed out entries and no event came since
C11_Witness_SecondDrainEmpty ==
    \E t \in Threads :
        /\ th[t].pc = "clear"
        /\ th[t].messages = <<>>
        /\ since_drain = "quiet"
        /\ drained # <<>>

\* thread t calls key_down, key_press or key_up in this step
KeyCommandCalled(t) ==
    /\ CanCall(t)
    /\ th'[t] # th[t]
    /\ th'[t].cmd \in KeyCommands

\* the names the message of the error lists
NamesListed(msg) == {msg.supported[i] : i \in 1..Len(msg.supported)}

\* C12: a key command given a name that is not mapped fails with the invalid-key
\* error (ValueError) whose message lists every name of KEY_MAP; it never
\* reaches the keyboard of the page, and it leaves the manager, the lock and
\* the page as they were.
C12_UnmappedKeyFailsLoudly ==
    [][\A t \in Threads :
         /\ KeyCommandCalled(t) =>
               IF Lower(th'[t].key) \notin DOMAIN KEY_MAP
               THEN /\ th'[t].pc = "raised"
                    /\ th'[t].err = "ValueError"
                    /\ InvalidKeyMessage(th'[t].key).key = th'[t].key
                    /\ NamesListed(InvalidKeyMessage(th'[t].key)) = DOMAIN KEY_MAP
                    /\ UNCHANGED <<manager_vars, lock_vars, surface_vars, history_vars,
                                   config_vars, env_vars>>
               ELSE /\ th'[t].pc = "key_send"
                    /\ th'[t].playwright_key = KEY_MAP[Lower(th'[t].key)]
         /\ th[t].pc = "key_send" => Lower(th[t].key) \in DOMAIN KEY_MAP ]_vars

\* a key command was refused for the name "bogus" while a page was open
C12_Witness_BogusKeyRefused ==
    \E t \in Threads :
        /\ th[t].pc = "raised"
        /\ th[t].cmd \in KeyCommands
        /\ th[t].err = "ValueError"
        /\ th[t].key = <<"b", "o", "g", "u", "s">>
        /\ page \in open_pages

\* C13: for every name of KEY_MAP, the upper-case aliases included, and every
\* case variant of it, get_key succeeds and returns the identifier KEY_MAP
\* holds for the lower-cased name.
C13_GetKeyCaseInsensitive ==
    (probe.fn = "get_key" /\ probe.result # "pending") =>
        /\ probe.result # "ValueError"
        /\ Lower(probe.name) \in DOMAIN KEY_MAP
        /\ probe.result = KEY_MAP[Lower(probe.name)]

\* get_key was called with "Enter", a mixed-case variant of the alias "ENTER"
C13_Witness_MixedCaseAlias ==
    /\ probe.fn = "get_key"
    /\ probe.name = <<"E", "N", "T", "E", "R">>
    /\ probe.key = <<"E", "n", "t", "e", "r">>
    /\ probe.result = "Enter"

\* constrain_mouse_position has returned
Constrained == probe.fn = "guard" /\ probe.adjusted # "pending"

\* constrain_mouse_position issued exactly one move, to the cursor position
OneMoveToCursor == mouse_moves = probe.moves + 1 /\ last_move = <<mouse_x, mouse_y>>

\* C14: with a positive window, after constrain_mouse_position each axis of
\* the cursor is min(max(prior, 0), dimension - 1), negative coordinates
\* included, and when that differs from the prior cursor one move to it was
\* issued and the call returned True.
C14_ClampsEveryCursor ==
    (Constrained /\ window_width > 0 /\ window_height > 0) =>
        /\ mouse_x = Min(Max(probe.x, 0), window_width - 1)
        /\ mouse_y = Min(Max(probe.y, 0), window_height - 1)
        /\ <<mouse_x, mouse_y>> # <<probe.x, probe.y>> =>
              (OneMoveToCursor /\ probe.adjusted = "True")

\* validate_coordinates and constrain_mouse_position have both returned
Guarded == Constrained /\ probe.valid # <<>>

\* the cursor was inside [0, width-1] x [0, height-1] before the call
WasInside ==
    /\ 0 <= probe.x /\ probe.x <= window_width - 1
    /\ 0 <= probe.y /\ probe.y <= window_height - 1

\* what C15 says of a cursor beyond the window and of a cursor inside it
BeyondIsClampedInsideIsKept ==
    /\ probe.x > window_width =>
          /\ probe.valid[1] = FALSE
          /\ mouse_x = window_width - 1
          /\ OneMoveToCursor
    /\ probe.y > window_height =>
          /\ probe.valid[2] = FALSE
          /\ mouse_y = window_height - 1
          /\ OneMoveToCursor
    /\ WasInside =>
          /\ mouse_moves = probe.moves
          /\ <<mouse_x, mouse_y>> = <<probe.x, probe.y>>
          /\ probe.adjusted = "False"

\* C15 as stated: for every cursor with x > width or y > height,
\* validate_coordinates reports that axis invalid and constrain_mouse_position
\* clamps it to width-1 / height-1 with exactly one move; a cursor inside
\* [0, width-1] x [0, height-1] gets no move, is unchanged, and False is returned.
C15_Stated_BeyondIsClamped == Guarded => BeyondIsClampedInsideIsKept

\* C15, amended: the same, for a window whose width and height are positive.
C15_BeyondIsClampedInPositiveWindow ==
    (Guarded /\ window_width > 0 /\ window_height > 0) => BeyondIsClampedInsideIsKept

\* a cursor beyond the right edge of a 3 x 3 window was clamped: (5, 1) became
\* (2, 1) with one move
C15_Witness_ClampedToEdge ==
    /\ Guarded
    /\ window_width = 3 /\ window_height = 3
    /\ probe.x = 5 /\ probe.y = 1
    /\ mouse_x = 2 /\ mouse_y = 1
    /\ OneMoveToCursor
    /\ probe.adjusted = "True"

\* validate_coordinates returns in this step
ValidateReturns == probe.fn = "guard" /\ probe.valid = <<>> /\ probe'.valid # <<>>

\* C16: validate_coordinates(x, y) judges each axis on its own: the x result is
\* true iff 0 <= x <= window_width, the y result is true iff
\* 0 <= y <= window_height, and the call changes no state of the manager.
C16_ValidateEachAxis ==
    [][ValidateReturns =>
          /\ probe'.valid[1] = (0 <= probe.x /\ probe.x <= window_width)
          /\ probe'.valid[2] = (0 <= probe.y /\ probe.y <= window_height)
          /\ UNCHANGED <<manager_vars, config_vars, lock_vars, surface_vars, env_vars>>]_vars

\* x on the right edge itself is valid while y beyond the bottom edge is not
C16_Witness_EdgeValidBeyondInvalid ==
    /\ probe.fn = "guard"
    /\ window_width > 0
    /\ probe.x = window_width
    /\ probe.y = window_height + 1
    /\ probe.valid = <<TRUE, FALSE>>

\* C17: when the window width or height is not positive,
\* constrain_mouse_position returns False, leaves mouse_x and mouse_y as they
\* were and issues no mouse move, wherever the cursor is.
C17_RefusesWithoutWindow ==
    (Constrained /\ (window_width <= 0 \/ window_height <= 0)) =>
        /\ probe.adjusted = "False"
        /\ mouse_x = probe.x
        /\ mouse_y = probe.y
        /\ mouse_moves = probe.moves
        /\ last_move = <<0, 0>>

\* the call returned on a window of width 0 with the cursor far outside
C17_Witness_RefusedBeyondCursor ==
    /\ Constrained
    /\ window_width = 0
    /\ window_height = 3
    /\ probe.x = 5
    /\ probe.y = -2
    /\ probe.adjusted = "False"

\* thread t returns from is_website_open in this step
IsWebsiteOpenReturns(t) ==
    /\ th'[t] # th[t]
    /\ th'[t].cmd = "is_website_open"
    /\ th'[t].pc = "returned"

\* C18: is_website_open returns true iff self.page exists and its url is
\* neither empty nor "about:blank": it is false before the first page is
\* created, on a new page that has not navigated, and after cleanup.
C18_OpenIffPageWithRealUrl ==
    [][\A t \in Threads :
         IsWebsiteOpenReturns(t) =>
            /\ th'[t].result \in {"True", "False"}
            /\ th'[t].result = "True" <=>
                  (page # NoPage /\ url # "" /\ url # "about:blank")
            /\ (pages_created = 0 \/ browser = "None") => th'[t].result = "False"
            /\ (page # NoPage /\ url = BlankUrl) => th'[t].result = "False" ]_vars

\* one thread was told True on a navigated page, and after cleanup the other
\* thread was told False
C18_Witness_TrueThenFalseAfterCleanup ==
    \E t, u \in Threads :
        /\ th[t].cmd = "is_website_open" /\ th[t].pc = "returned" /\ th[t].result = "True"
        /\ th[u].cmd = "is_website_open" /\ th[u].pc = "returned" /\ th[u].result = "False"
        /\ page = NoPage
        /\ close_log = <<"page", "browser", "playwright">>

\* thread t comes out of _browser_lock in this step with a page that was there
EnsureFoundPage(t) ==
    /\ CanCall(t)
    /\ th'[t].pc = "inject_loop"
    /\ page # NoPage

\* C19: when _ensure_browser creates the page it sets the cursor to (0, 0) and
\* issues exactly one move, to (0, 0); when it finds a page it issues no move
\* and leaves the cursor where it was.
C19_CursorResetOnlyOnNewPage ==
    [][ /\ (page = NoPage /\ page' # NoPage) =>
              /\ mouse_x' = 0
              /\ mouse_y' = 0
              /\ mouse_moves' = mouse_moves + 1
              /\ last_move' = <<0, 0>>
        /\ \A t \in Threads :
              EnsureFoundPage(t) =>
                  UNCHANGED <<page, mouse_x, mouse_y, mouse_moves, last_move>> ]_vars

\* the second take_screenshot found the page with the cursor away from (0, 0):
\* the only move so far is the one made when the page was created
C19_Witness_FoundPageKeepsCursor ==
    \E t \in Threads :
        /\ th[t].pc = "inject_loop"
        /\ th[t].attempts = 0
        /\ screenshot_index = 1
        /\ <<mouse_x, mouse_y>> = <<1, 2>>
        /\ mouse_moves = 1
        /\ last_move = <<0, 0>>

\* construction failed before anything was started, or has not got that far
NeverStarted ==
    /\ probe.pc \in {"validate", "raised"}
    /\ browser = "None"
    /\ playwright = "None"

\* C20 as stated: a configured engine name that is not one of the two strings
\* "chromium" and "firefox" makes construction fail before the runtime or the
\* browser is started, and no other engine is launched in its place.
C20_Stated_NameOutsideSetFails ==
    (probe.fn = "construct" /\ probe.config_browser_type \notin SUPPORTED_BROWSERS) =>
        NeverStarted

\* C20, amended: a configured engine name whose lower-cased form is not
\* "chromium" or "firefox" makes construction fail before the runtime or the
\* browser is started; a manager that is constructed has launched the engine
\* its configured name spells, whatever the case, never another one.
C20_UnsupportedEngineFailsEarly ==
    probe.fn = "construct" =>
        /\ Lower(probe.config_browser_type) \notin SUPPORTED_BROWSERS => NeverStarted
        /\ probe.pc = "constructed" =>
              /\ probe.launched = Lower(probe.config_browser_type)
              /\ probe.launched \in SUPPORTED_BROWSERS
        /\ probe.pc # "constructed" => (browser = "None" /\ playwright = "None")

\* construction with "WEBkit" was refused; nothing was started
C20_Witness_WebkitRefused ==
    /\ probe.fn = "construct"
    /\ probe.config_browser_type = <<"W", "E", "B", "k", "i", "t">>
    /\ probe.pc = "raised"
    /\ browser = "None"
    /\ playwright = "None"

\* the position of thread t changes in this step, from pc1
Leaves(t, pc1) == th[t].pc = pc1 /\ th'[t].pc # pc1

\* the position of thread t changes in this step, to pc2
Enters(t, pc2) == th[t].pc # pc2 /\ th'[t].pc = pc2

\* C21: inside one take_screenshot the steps come in one order: the injection
\* loop ends, one settle delay, the capture, one removal of the marker whose
\* failure is ignored, the increment of the counter.  The marker is never
\* removed before the capture, the counter never incremented before the
\* capture has succeeded.
C21_StepsInOrder ==
    [][ /\ \A t \in Threads :
             /\ Leaves(t, "settle") => th'[t].pc = "capture"
             /\ Leaves(t, "capture") => th'[t].pc \in {"remove_crosshair", "raised"}
             /\ Leaves(t, "remove_crosshair") => th'[t].pc = "increment"
             /\ Leaves(t, "increment") => th'[t].pc = "returned"
             /\ Enters(t, "settle") => th[t].pc = "inject_loop"
             /\ Enters(t, "capture") => th[t].pc = "settle"
             /\ Enters(t, "remove_crosshair") => th[t].pc = "capture"
             /\ Enters(t, "increment") => th[t].pc = "remove_crosshair"
        /\ (crosshair /\ ~crosshair') =>
              \E t \in Threads : Leaves(t, "remove_crosshair")
        /\ screenshot_index' # screenshot_index =>
              \E t \in Threads : Leaves(t, "increment") ]_vars

\* a take_screenshot stands before its increment with the marker still in the
\* page: the removal failed and was ignored
C21_Witness_RemovalFailedIgnored ==
    \E t \in Threads :
        /\ th[t].pc = "increment"
        /\ th[t].inject_ok
        /\ crosshair

\* thread t makes an injection attempt in this step
Attempts(t) == th'[t].attempts = th[t].attempts + 1

\* C22: the retry loop of take_screenshot ends: no attempt follows a
\* successful one, a retry follows (after the sleep) only a failed attempt, no
\* attempt starts once the deadline has passed, and every call that is in the
\* loop or in the settle delay reaches the capture.
C22_RetryLoopTerminates ==
    /\ [][\A t \in Threads :
            /\ Attempts(t) =>
                  /\ th[t].pc = "inject_loop"
                  /\ ~th[t].inject_ok
                  /\ th[t].time_left > 0
            /\ Enters(t, "retry_sleep") => (Attempts(t) /\ ~th'[t].inject_ok)
            /\ (Enters(t, "inject_loop") /\ ~CanCall(t)) => th[t].pc = "retry_sleep"
            /\ Leaves(t, "retry_sleep") => th'[t].pc = "inject_loop" ]_vars
    /\ \A t \in Threads :
          (th[t].pc \in {"inject_loop", "retry_sleep", "settle"}) ~> (th[t].pc = "capture")

\* a call reached the capture after a failed attempt, a sleep and a successful
\* second attempt
C22_Witness_CaptureAfterRetry ==
    \E t \in Threads :
        /\ th[t].pc = "capture"
        /\ th[t].attempts = 2
        /\ th[t].inject_ok

\* C23: every take_screenshot makes at least one attempt to inject the marker
\* before it captures the image, whatever the configured reconnect timeout,
\* zero included.
C23_InjectsBeforeCapture ==
    \A t \in Threads :
        th[t].pc \in {"capture", "remove_crosshair", "increment"} => th[t].attempts >= 1

\* the positions inside the methods that take the lock: take_screenshot,
\* cleanup, get_console_output
LockedPcs == CapturePcs \cup {"release_loop", "clear"}

\* C24: the operations that take the lock run one after the other, in the
\* order they acquired it: a take_screenshot owns the lock from before its
\* first injection attempt until after its increment, its sleeps in the retry
\* loop included, and no cleanup, get_console_output or other take_screenshot
\* is inside its locked section meanwhile.
C24_LockedSectionsDoNotOverlap ==
    \A t \in Threads :
        /\ th[t].pc \in LockedPcs => lock_owner = t
        /\ th[t].pc \in CapturePcs =>
              \A u \in Threads \ {t} : th[u].pc \notin LockedPcs
        /\ lock_owner = t => th[t].pc \in LockedPcs

\* a take_screenshot sleeps in its retry loop holding the lock while console
\* entries wait in the buffer for a drain
C24_Witness_SleepsHoldingLock ==
    \E t \in Threads :
        /\ th[t].pc = "retry_sleep"
        /\ lock_owner = t
        /\ console_messages # <<>>
        /\ \A u \in Threads \ {t} : CanCall(u)

\* C25: the console callback appends to the buffer only while it holds the
\* lock itself, so the buffer never grows while a command thread holds the
\* lock (in a capture's retry sleep, in the middle of a drain).
C25_AppendOnlyUnderLock ==
    [][Len(console_messages') > Len(console_messages) => lock_owner = "None"]_vars

\* the capture of thread t raises in this step
CaptureRaises(t) == Leaves(t, "capture") /\ th'[t].pc = "raised"

\* C26: when the capture inside take_screenshot raises, the caller gets the
\* error, the counter is left as it was, and the lock is released: it is free
\* for every later command, and a thread that got the error never owns it.
C26_FailedCaptureReleasesLock ==
    [][\A t \in Threads :
         /\ CaptureRaises(t) =>
               /\ th'[t].err = "Error: page.screenshot"
               /\ th'[t].cmd = "take_screenshot"
               /\ screenshot_index' = screenshot_index
               /\ shots' = shots
               /\ lock_owner' = "None"
               /\ lock_count' = 0
         /\ th'[t].pc = "raised" => lock_owner' # t ]_vars

\* after a capture that raised, the other thread has taken the lock and is
\* inside its own take_screenshot
C26_Witness_NextCommandGotLock ==
    \E t, u \in Threads :
        /\ th[t].pc = "raised"
        /\ th[t].err = "Error: page.screenshot"
        /\ th[u].pc = "inject_loop"
        /\ lock_owner = u
        /\ screenshot_index = 0

\* thread t comes out of is_website_open in this step, with a value or an error
IsWebsiteOpenEnds(t) ==
    /\ th'[t] # th[t]
    /\ th'[t].cmd = "is_website_open"
    /\ th'[t].pc \in {"returned", "raised"}

\* C27: whatever the interleaving with a concurrent cleanup, is_website_open
\* never raises and never returns true for a page cleanup has closed.
C27_OpenSafeAgainstCleanup ==
    [][\A t \in Threads :
         IsWebsiteOpenEnds(t) =>
            /\ th'[t].pc = "returned"
            /\ th'[t].result = "True" => page \in open_pages ]_vars

\* C28: validate_coordinates and constrain_mouse_position agree on what is in
\* bounds: in a positive window a cursor that validate_coordinates reports
\* valid on both axes is left where it is by constrain_mouse_position, which
\* issues no move and returns False.
C28_ValidMeansUntouched ==
    (Guarded /\ window_width > 0 /\ window_height > 0 /\ probe.valid = <<TRUE, TRUE>>) =>
        /\ <<mouse_x, mouse_y>> = <<probe.x, probe.y>>
        /\ mouse_moves = probe.moves
        /\ probe.adjusted = "False"

====
